---- MODULE Spec2Model ----
(***************************************************************************)
(* Model of the Terraform tfstate SDB module (src/_sdb/terraform.py).      *)
(*                                                                         *)
(* Python strings are sequences of one-character strings, so that split,   *)
(* join, replace and the regular expressions act on characters.  Python    *)
(* values are tagged records [t, v]:                                       *)
(*   "str"  v = the characters          "none" v = <<>>                    *)
(*   "list" / "tuple" / "set"  v = the elements, in iteration order         *)
(*   "dict" v = the items <<key, value>> in insertion order, keys unique    *)
(*   "err"  v = <<exception class name>>  (a raised exception)              *)
(***************************************************************************)
EXTENDS Integers, Sequences, FiniteSets, TLC

VARIABLES req, tfstatefile, cache, now, last

vars == <<req, tfstatefile, cache, now, last>>

(* ------------------------------------------------------------------ *)
(* Python values                                                       *)
(* ------------------------------------------------------------------ *)

Str(s) == [t |-> "str", v |-> s]
NoneV == [t |-> "none", v |-> <<>>]
List(xs) == [t |-> "list", v |-> xs]
Tuple(xs) == [t |-> "tuple", v |-> xs]
Dict(items) == [t |-> "dict", v |-> items]
Err(e) == [t |-> "err", v |-> <<e>>]
EmptyDict == Dict(<<>>)
IsErr(x) == x.t = "err"

\* The first raised exception among the elements of a comprehension, if any.
FirstErr(xs) ==
  IF \E i \in 1..Len(xs) : IsErr(xs[i])
  THEN xs[CHOOSE i \in 1..Len(xs) : IsErr(xs[i]) /\ \A j \in 1..(i-1) : ~IsErr(xs[j])]
  ELSE NoneV

HasErr(xs) == \E i \in 1..Len(xs) : IsErr(xs[i])

\* The list a comprehension builds, or the exception one of its elements raised.
list_or_err(xs) == IF HasErr(xs) THEN FirstErr(xs) ELSE List(xs)

\* dict.get(k, default) on the items of a dict.
dict_get(items, k, default) ==
  IF \E i \in 1..Len(items) : items[i][1] = k
  THEN items[CHOOSE i \in 1..Len(items) : items[i][1] = k][2]
  ELSE default

\* dict.update({k: val}): replaces in place, or appends a new key.
dict_update(items, k, val) ==
  IF \E i \in 1..Len(items) : items[i][1] = k
  THEN [i \in 1..Len(items) |-> IF items[i][1] = k THEN <<k, val>> ELSE items[i]]
  ELSE Append(items, <<k, val>>)

dict_keys(items) == [i \in 1..Len(items) |-> items[i][1]]

(* ------------------------------------------------------------------ *)
(* Python string operations                                            *)
(* ------------------------------------------------------------------ *)

\* c in s, for a one-character c.
contains(c, s) == \E i \in 1..Len(s) : s[i] = c

\* s.split(sep) for a one-character separator.
RECURSIVE split(_, _)
split(s, sep) ==
  IF ~contains(sep, s)
  THEN <<s>>
  ELSE LET i == CHOOSE n \in 1..Len(s) : s[n] = sep /\ \A m \in 1..(n-1) : s[m] # sep
       IN  <<SubSeq(s, 1, i - 1)>> \o split(SubSeq(s, i + 1, Len(s)), sep)

\* sep.join(parts)
RECURSIVE join(_, _)
join(sep, parts) ==
  IF Len(parts) = 0 THEN <<>>
  ELSE IF Len(parts) = 1 THEN parts[1]
  ELSE parts[1] \o sep \o join(sep, Tail(parts))

\* s.replace(old, new) for a non-empty old: every non-overlapping occurrence,
\* left to right.
RECURSIVE replace(_, _, _)
replace(s, old, new) ==
  IF Len(s) < Len(old) \/ Len(old) = 0
  THEN s
  ELSE IF SubSeq(s, 1, Len(old)) = old
       THEN new \o replace(SubSeq(s, Len(old) + 1, Len(s)), old, new)
       ELSE <<s[1]>> \o replace(Tail(s), old, new)

(* ------------------------------------------------------------------ *)
(* Regular expressions (module re), for the patterns the code builds:  *)
(* a "." matches any character, ".+" one or more of any character, any *)
(* other character of the model's alphabet matches itself.             *)
(* ------------------------------------------------------------------ *)

\* Does pattern p, from index i, match s starting exactly at index j?
RECURSIVE MatchAt(_, _, _, _)
MatchAt(p, i, s, j) ==
  IF i > Len(p) THEN TRUE
  ELSE IF p[i] = "." /\ i + 1 <= Len(p) /\ p[i + 1] = "+"
       THEN \E k \in j..Len(s) : MatchAt(p, i + 2, s, k + 1)
  ELSE IF p[i] = "."
       THEN j <= Len(s) /\ MatchAt(p, i + 1, s, j + 1)
  ELSE j <= Len(s) /\ s[j] = p[i] /\ MatchAt(p, i + 1, s, j + 1)

\* pattern.search(s): a match starting anywhere in s.
pattern_search(p, s) == \E j \in 1..(Len(s) + 1) : MatchAt(p, 1, s, j)

\* pattern.match(s): a match starting at the beginning of s.
pattern_match(p, s) == MatchAt(p, 1, s, 1)

\* s.replace('*', '.+'), the pattern every wildcard is compiled from.
wildcard_pattern(s) == replace(s, <<"*">>, <<".", "+">>)

(* ------------------------------------------------------------------ *)
(* flatten (lines 165-175)                                             *)
(* ------------------------------------------------------------------ *)

\* A plausible slip: unwrap a singleton without flattening what was inside.
RECURSIVE flatten_shallow(_)
flatten_shallow(result) ==
  IF result.t \in {"list", "tuple", "set"}
  THEN IF Len(result.v) = 1
       THEN IF result.t = "set" THEN Err("TypeError") ELSE result.v[1]
       ELSE list_or_err([i \in 1..Len(result.v) |-> flatten_shallow(result.v[i])])
  ELSE result

\* Flatten any lists containing a single value.  A set of one element is
\* not subscriptable: result[0] raises TypeError.
RECURSIVE flatten(_)
flatten(result) ==
  IF result.t \in {"list", "tuple", "set"}
  THEN IF Len(result.v) = 1
       THEN IF result.t = "set" THEN Err("TypeError") ELSE flatten(result.v[1])
       ELSE list_or_err([i \in 1..Len(result.v) |-> flatten(result.v[i])])
  ELSE result

(* ------------------------------------------------------------------ *)
(* json.dumps, for the values flatten returns                          *)
(* ------------------------------------------------------------------ *)

quote(s) == <<"\"">> \o s \o <<"\"">>

RECURSIVE json_dumps(_)
json_dumps(x) ==
  CASE x.t = "str"  -> quote(x.v)
    [] x.t = "none" -> <<"n", "u", "l", "l">>
    [] x.t \in {"list", "tuple"} ->
         <<"[">> \o join(<<",", " ">>, [i \in 1..Len(x.v) |-> json_dumps(x.v[i])]) \o <<"]">>
    [] x.t = "dict" ->
         <<"{">> \o join(<<",", " ">>,
                        [i \in 1..Len(x.v) |->
                           quote(x.v[i][1]) \o <<":", " ">> \o json_dumps(x.v[i][2])])
             \o <<"}">>

(* ------------------------------------------------------------------ *)
(* fetch_resource (lines 178-209)                                      *)
(* ------------------------------------------------------------------ *)

\* resource.get('primary', {}).get('attributes', {}): the items of the
\* attributes mapping; None has no .get (AttributeError).
attributes_of(resource) ==
  IF resource.t = "none"
  THEN Err("AttributeError")
  ELSE dict_get(dict_get(resource.v, "primary", EmptyDict).v, "attributes", EmptyDict)

values_of(items) == [i \in 1..Len(items) |-> items[i][2]]

\* Lines 186-188: every resource whose key the pattern is found in.
resources_matching(pattern, data) ==
  values_of(SelectSeq(data, LAMBDA it : pattern_search(pattern, it[1])))

\* Lines 193-195: one lookup per alternative of the comma-bearing part,
\* data.get with no default (None when the key is missing).
resources_listed(resource_key, split_part, alts, data) ==
  [i \in 1..Len(alts) |-> dict_get(data, replace(resource_key, split_part, alts[i]), NoneV)]

\* Line 192: the first key part holding a comma.
first_with_comma(key_parts) == SelectSeq(key_parts, LAMBDA k : contains(",", k))[1]

\* Lines 185-198, resource_key being '.'.join(key_parts); data: the items of
\* one module's resources mapping.
select_resources(resource_key, key_parts, data) ==
  IF contains("*", resource_key)
  THEN resources_matching(wildcard_pattern(resource_key), data)
  ELSE IF contains(",", resource_key)
  THEN resources_listed(resource_key, first_with_comma(key_parts),
                        split(first_with_comma(key_parts), ","), data)
  ELSE <<dict_get(data, resource_key, EmptyDict)>>

\* The dict comprehension of line 206: one key per listed name, a repeated
\* name kept once.
RECURSIVE pick_attributes(_, _, _)
pick_attributes(names, attrs, acc) ==
  IF Len(names) = 0 THEN acc
  ELSE pick_attributes(Tail(names), attrs,
                       dict_update(acc, names[1], dict_get(attrs, names[1], NoneV)))

\* Line 203: the attributes whose name the pattern matches (pattern.match).
attributes_matching(pattern, attrs) ==
  Dict(SelectSeq(attrs, LAMBDA it : pattern_match(pattern, it[1])))

\* Lines 200-209 for one resource, attrs being its attributes mapping.
extract(attr, attrs) ==
  IF IsErr(attrs) THEN attrs
  ELSE IF contains("*", attr) THEN attributes_matching(wildcard_pattern(attr), attrs.v)
  ELSE IF contains(",", attr) THEN Dict(pick_attributes(split(attr, ","), attrs.v, <<>>))
  ELSE dict_get(attrs.v, attr, NoneV)

\* Lines 203, 206, 209: one entry per selected resource.
extract_all(attr, resources) ==
  list_or_err([i \in 1..Len(resources) |-> extract(attr, attributes_of(resources[i]))])

fetch_resource(key_parts, attr, data) ==
  extract_all(attr, select_resources(join(<<".">>, key_parts), key_parts, data))

(* ------------------------------------------------------------------ *)
(* parse_identifier (lines 139-162)                                    *)
(* ------------------------------------------------------------------ *)

kw_module == <<"m", "o", "d", "u", "l", "e">>
kw_output == <<"o", "u", "t", "p", "u", "t">>
kw_root == <<"r", "o", "o", "t">>

\* data.get('modules'): the items of the path-keyed modules mapping.
modules_of(data) == dict_get(data.v, "modules", EmptyDict).v

\* Line 147: the module paths of the document the pattern is found in.
paths_matching(pattern, modules) ==
  dict_keys(SelectSeq(modules, LAMBDA it : pattern_search(pattern, it[1])))

\* Line 150: 'root:' + name for each listed name.
paths_listed(names) == [i \in 1..Len(names) |-> kw_root \o <<":">> \o names[i]]

\* A plausible slip: keep only the listed modules the document holds.
mod_paths_existing(key_parts, data) ==
  IF key_parts[1] = kw_module
  THEN IF Len(key_parts) < 2 THEN Err("IndexError")
       ELSE IF contains("*", key_parts[2])
       THEN List(paths_matching(wildcard_pattern(key_parts[2]), modules_of(data)))
       ELSE List(SelectSeq(paths_listed(split(key_parts[2], ",")),
                           LAMBDA q : \E i \in 1..Len(modules_of(data)) :
                                         modules_of(data)[i][1] = q))
  ELSE List(<<kw_root>>)

\* Lines 143-154: the module paths the query is resolved against
\* (key_parts[1] with no second part raises IndexError).
mod_paths(key_parts, data) ==
  IF key_parts[1] = kw_module
  THEN IF Len(key_parts) < 2 THEN Err("IndexError")
       ELSE IF contains("*", key_parts[2])
       THEN List(paths_matching(wildcard_pattern(key_parts[2]), modules_of(data)))
       ELSE List(paths_listed(split(key_parts[2], ",")))
  ELSE List(<<kw_root>>)

\* Line 151: key_parts = key_parts[2:] for a module-scoped query.
rest_parts(key_parts) ==
  IF key_parts[1] = kw_module THEN SubSeq(key_parts, 3, Len(key_parts)) ELSE key_parts

\* Line 158, for one module path p.
output_value(name, p, data) ==
  dict_get(dict_get(dict_get(dict_get(modules_of(data), p, EmptyDict).v,
                             "outputs", EmptyDict).v,
                    name, EmptyDict).v,
           "value", Str(<<>>))

\* Line 161, for one module path p.
module_resources(p, data) ==
  dict_get(dict_get(modules_of(data), p, EmptyDict).v, "resources", EmptyDict).v

\* Lines 156-161: result before it is flattened, paths being mod_paths and
\* parts the key parts left (key_parts[0] of no parts raises IndexError).
collect(paths, parts, attr, data) ==
  IF IsErr(paths) THEN paths
  ELSE IF Len(parts) = 0 THEN Err("IndexError")
  ELSE IF parts[1] = kw_output
  THEN IF Len(parts) < 2 THEN Err("IndexError")
       ELSE List([i \in 1..Len(paths.v) |-> output_value(parts[2], paths.v[i], data)])
  ELSE list_or_err([i \in 1..Len(paths.v) |->
                      fetch_resource(parts, attr, module_resources(paths.v[i], data))])

\* Lines 143-161.
match_set(key_parts, attr, data) ==
  collect(mod_paths(key_parts, data), rest_parts(key_parts), attr, data)

\* Line 162.
flattened(result) == IF IsErr(result) THEN result ELSE flatten(result)

\* A plausible slip: return result without flattening it.
parse_identifier_unflattened(key_parts, attr, data) == match_set(key_parts, attr, data)

parse_identifier(key_parts, attr, data) == flattened(match_set(key_parts, attr, data))

(* ------------------------------------------------------------------ *)
(* parse_tfstate_file (lines 113-136)                                  *)
(* ------------------------------------------------------------------ *)

\* A file that does not exist.
NoFile == [t |-> "nofile", v |-> <<>>]

\* Lines 126-130: the list of modules re-keyed by ':'.join(path).
RECURSIVE modules_by_path(_, _)
modules_by_path(modules_orig, acc) ==
  IF Len(modules_orig) = 0 THEN acc
  ELSE LET k == modules_orig[1]
           path == dict_get(k.v, "path", NoneV)
           names == [i \in 1..Len(path.v) |-> path.v[i].v]
       IN  modules_by_path(Tail(modules_orig),
                           dict_update(acc, join(<<":">>, names), k))

normalize(data) ==
  Dict(dict_update(data.v, "modules",
                   Dict(modules_by_path(dict_get(data.v, "modules", NoneV).v, <<>>))))

\* type(result) == 'string': a type object compared with a str.
type_is_string(result) ==
  [t |-> "type", v |-> <<result.t>>] = Str(<<"s", "t", "r", "i", "n", "g">>)

\* Lines 133-136.
encoded(result) ==
  IF IsErr(result) THEN result
  ELSE IF type_is_string(result) THEN result
  ELSE Str(json_dumps(result))

\* Lines 118-119 and 132, pair being full_key.split('/') of two parts.
parse_key(pair, data) == parse_identifier(split(pair[1], "."), pair[2], data)

\* A plausible slip: split the key only after the file has been read.
parse_tfstate_file_late_split(full_key, file) ==
  IF file = NoFile THEN Err("IOError")
  ELSE IF dict_get(file.v, "modules", NoneV).t # "list" THEN Err("TypeError")
  ELSE IF Len(split(full_key, "/")) # 2 THEN Err("ValueError")
  ELSE encoded(parse_key(split(full_key, "/"), normalize(file)))

\* file: the parsed JSON document at file_path, or NoFile.  The unpacking of
\* line 118 raises ValueError unless the split gives two parts; open raises
\* IOError; iterating modules_orig = None raises TypeError.
parse_tfstate_file(full_key, file) ==
  IF Len(split(full_key, "/")) # 2 THEN Err("ValueError")
  ELSE IF file = NoFile THEN Err("IOError")
  ELSE IF dict_get(file.v, "modules", NoneV).t # "list" THEN Err("TypeError")
  ELSE encoded(parse_key(split(full_key, "/"), normalize(file)))

(* ------------------------------------------------------------------ *)
(* Backends (lines 84-110)                                             *)
(* ------------------------------------------------------------------ *)

\* cache_duration when the profile does not give one (line 98).
DefaultCacheDuration == 60

\* profile=None, the default of get.
NoProfile ==
  [given |-> FALSE, backend |-> "", bucket |-> "", key |-> "",
   has_cache_duration |-> FALSE, cache_duration |-> 0]

FileProfile ==
  [given |-> TRUE, backend |-> "file", bucket |-> "", key |-> "",
   has_cache_duration |-> FALSE, cache_duration |-> 0]

\* No file at a cache path.
NoCacheFile == [exists |-> FALSE, bucket |-> "", key |-> "", mtime |-> 0, body |-> NoFile]

\* '/tmp/salt_tfstate_' + md5(profile['key']): the name is a function of the
\* S3 key alone (md5 taken as injective on the keys of the model).
cache_name(profile) == profile.key

\* profile.get('cache_duration', 60)
cache_duration(profile) ==
  IF profile.has_cache_duration THEN profile.cache_duration ELSE DefaultCacheDuration

\* Line 98.
is_stale(file, profile, clock) == file.mtime + cache_duration(profile) < clock

\* Attribute values of the three remote state documents.
one == <<"1">>
two == <<"2">>
three == <<"3">>
name_tx == <<"t", ".", "x">>
name_ty == <<"t", ".", "y">>
name_pq == <<"p", "q">>
name_apq == <<"a", "p", "q">>
name_o == <<"o">>

resource(attrs) == Dict(<< <<"primary", Dict(<< <<"attributes", Dict(attrs)>> >>)>> >>)

module(path, resources, outputs) ==
  Dict(<< <<"path", List([i \in 1..Len(path) |-> Str(path[i])])>>,
          <<"outputs", outputs>>,
          <<"resources", resources>> >>)

document(modules) == Dict(<< <<"modules", List(modules)>> >>)

\* A root module with the one resource t.x, holding pq = val.
small_document(val) ==
  document(<< module(<<kw_root>>,
                     Dict(<< <<name_tx, resource(<< <<name_pq, Str(val)>> >>)>> >>),
                     EmptyDict) >>)

\* The objects of the object store: three exist, b2/k2 does not.
s3_object(bucket, key) ==
  CASE bucket = "b1" /\ key = "k1" -> small_document(one)
    [] bucket = "b1" /\ key = "k2" -> small_document(two)
    [] bucket = "b2" /\ key = "k1" -> small_document(three)
    [] OTHER -> NoFile

\* s3_res.Object(bucket, key).download_file(path): the file written at the
\* cache path, or NoCacheFile when the object does not exist (ClientError).
\* bucket and key record where the copy came from; the file itself holds
\* only the body.
download_file(profile, clock) ==
  IF s3_object(profile.bucket, profile.key) = NoFile
  THEN NoCacheFile
  ELSE [exists |-> TRUE, bucket |-> profile.bucket, key |-> profile.key,
        mtime |-> clock, body |-> s3_object(profile.bucket, profile.key)]

\* Lines 93-100: is the object downloaded (no file at the cache path, or a
\* stale one)?
must_fetch(old, profile, clock) == ~old.exists \/ is_stale(old, profile, clock)

\* Lines 95/100 and 103: download to the cache path, then parse that file.
fetch_and_parse(key, name, new, files) ==
  IF new.exists
  THEN [cache |-> [files EXCEPT ![name] = new], fetched |-> "download",
        out |-> parse_tfstate_file(key, new.body)]
  ELSE [cache |-> files, fetched |-> "download", out |-> Err("ClientError")]

\* get_s3: the cache after the call, whether the object was downloaded or
\* the cached copy used, and what parse_tfstate_file returned or raised.
get_s3(key, profile, files, clock) ==
  IF must_fetch(files[cache_name(profile)], profile, clock)
  THEN fetch_and_parse(key, cache_name(profile), download_file(profile, clock), files)
  ELSE [cache |-> files, fetched |-> "cache",
        out |-> parse_tfstate_file(key, files[cache_name(profile)].body)]

\* get_file: file is the content of profile['tfstatefile'].
get_file(key, profile, file, files) ==
  [cache |-> files, fetched |-> "none", out |-> parse_tfstate_file(key, file)]

(* ------------------------------------------------------------------ *)
(* get and set (lines 52-74)                                           *)
(* ------------------------------------------------------------------ *)

\* Lines 68-69.  profile=None has no .get (AttributeError); for a backend
\* that is neither file nor s3, backends.get returns its default, the str
\* 'notimplmented_backend', and calling a str raises TypeError.
dispatch(key, profile, file, files, clock) ==
  IF ~profile.given
  THEN [cache |-> files, fetched |-> "none", out |-> Err("AttributeError")]
  ELSE IF profile.backend = "file" THEN get_file(key, profile, file, files)
  ELSE IF profile.backend = "s3" THEN get_s3(key, profile, files, clock)
  ELSE [cache |-> files, fetched |-> "none", out |-> Err("TypeError")]

Return(x) == [kind |-> "return", exc |-> "", v |-> x]
Raise(exc, cause) == [kind |-> "raise", exc |-> exc, v |-> cause]

\* Lines 70-74 on what the backend returned or raised (a slip: only a
\* ValueError is caught and wrapped).
finish_narrow_except(key, profile, r) ==
  /\ cache' = r.cache
  /\ last' = [op |-> "get", key |-> key, profile |-> profile, args |-> 0, at |-> now,
              fetched |-> r.fetched, out |-> r.out,
              logged |-> (r.out = Err("ValueError")),
              ret |-> IF IsErr(r.out)
                      THEN IF r.out = Err("ValueError")
                           THEN Raise("CommandExecutionError", r.out)
                           ELSE Raise(r.out.v[1], NoneV)
                      ELSE Return(r.out)]
  /\ UNCHANGED <<req, tfstatefile, now>>

\* Lines 70-74: every exception is logged and re-raised as
\* CommandExecutionError(exception); otherwise retval is returned.
finish(key, profile, r) ==
  /\ cache' = r.cache
  /\ last' = [op |-> "get", key |-> key, profile |-> profile, args |-> 0, at |-> now,
              fetched |-> r.fetched, out |-> r.out,
              logged |-> IsErr(r.out),
              ret |-> IF IsErr(r.out)
                      THEN Raise("CommandExecutionError", r.out)
                      ELSE Return(r.out)]
  /\ UNCHANGED <<req, tfstatefile, now>>

get(key, profile) == finish(key, profile, dispatch(key, profile, tfstatefile, cache, now))

\* A plausible slip: a key and a value given are written to the state file.
set_stores(args, kwargs) ==
  IF Len(args) = 2
  THEN /\ tfstatefile' = small_document(args[2])
       /\ last' = [op |-> "set", key |-> <<>>, profile |-> kwargs, args |-> Len(args), at |-> now,
                   fetched |-> "none", out |-> NoneV, logged |-> FALSE,
                   ret |-> Return(NoneV)]
       /\ UNCHANGED <<req, cache, now>>
  ELSE /\ last' = [op |-> "set", key |-> <<>>, profile |-> kwargs, args |-> Len(args), at |-> now,
                   fetched |-> "none", out |-> Err("NotImplemented"), logged |-> FALSE,
                   ret |-> Raise("NotImplemented", NoneV)]
       /\ UNCHANGED <<req, tfstatefile, cache, now>>

\* set_(*args, **kwargs): raises salt.exceptions.NotImplemented.
set_(args, kwargs) ==
  /\ last' = [op |-> "set", key |-> <<>>, profile |-> kwargs, args |-> Len(args), at |-> now,
              fetched |-> "none", out |-> Err("NotImplemented"), logged |-> FALSE,
              ret |-> Raise("NotImplemented", NoneV)]
  /\ UNCHANGED <<req, tfstatefile, cache, now>>

(* ------------------------------------------------------------------ *)
(* Inputs: state documents, keys, profiles                             *)
(* ------------------------------------------------------------------ *)

\* The most modules a state document holds.
MaxModules == 2

\* The most nodes (containers and scalars) of a value handed to flatten.
MaxNodes == 5

\* The clock stops here (seconds).
MaxTime == 61

name_a == <<"a">>
name_b == <<"b">>
name_n == <<"n">>
name_tz == <<"t", ".", "z">>
dot == <<".">>
slash == <<"/">>
x_value == <<"x">>

\* t.x holds pq and apq, t.y holds pq alone.
ResourcesFull ==
  Dict(<< <<name_tx, resource(<< <<name_pq, Str(one)>>, <<name_apq, Str(two)>> >>)>>,
          <<name_ty, resource(<< <<name_pq, Str(three)>> >>)>> >>)

OutputsFull == Dict(<< <<name_o, Dict(<< <<"value", Str(x_value)>> >>)>> >>)

ModulePaths == {<<kw_root>>, <<kw_root, name_a>>, <<kw_root, name_b>>}

ModuleChoices ==
  {module(p, r, o) : p \in ModulePaths, r \in {ResourcesFull, EmptyDict},
                     o \in {OutputsFull, EmptyDict}}

path_of(m) == dict_get(m.v, "path", NoneV)

\* Lists of at most n modules; module paths are unique within a document.
RECURSIVE ModuleLists(_)
ModuleLists(n) ==
  IF n = 0 THEN {<<>>}
  ELSE LET shorter == ModuleLists(n - 1)
       IN  shorter \cup
           {Append(ms, m) : <<ms, m>> \in
              {pr \in shorter \X ModuleChoices :
                 /\ Len(pr[1]) = n - 1
                 /\ \A i \in 1..Len(pr[1]) : path_of(pr[1][i]) # path_of(pr[2])}}

\* A JSON document with no 'modules' field.
DocumentWithoutModules == Dict(<< <<"version", Str(three)>> >>)

Documents == {document(ms) : ms \in ModuleLists(MaxModules)}

\* What may be found at profile['tfstatefile'].
Files == Documents \cup {DocumentWithoutModules, NoFile}

Prefixes ==
  { <<>>,
    kw_module \o dot \o name_a \o dot,
    kw_module \o dot \o <<"a", ",", "b">> \o dot,
    kw_module \o dot \o <<"*">> \o dot }

Identifiers ==
  { name_tx, name_tz, <<"t", ".", "*">>, <<"t", ".", "x", ",", "z">>,
    <<"t", ".", "x", ",", "y">>, kw_output \o dot \o name_o, kw_output \o dot \o name_n }

Attributes == { name_pq, name_n, <<"p", "*">>, <<"p", "q", ",", "n">> }

\* <identifier>/<attribute>, the identifier optionally module-scoped.
QueryKeys == {p \o i \o slash \o a : p \in Prefixes, i \in Identifiers, a \in Attributes}

\* Keys with no '/' and keys with more than one.
SlashlessKeys == { <<>>, name_tx, kw_module \o dot \o name_a \o dot \o name_tx }
ManySlashKeys ==
  { name_tx \o slash \o name_pq \o slash \o name_n,
    kw_module \o dot \o <<"a", ",", "b">> \o slash \o kw_output \o slash \o name_o,
    <<"/", "/">> }

\* One '/', but an identifier too short to name a resource or an output.
ShortKeys ==
  { kw_module \o slash \o name_pq, kw_module \o dot \o name_a \o slash \o name_pq,
    kw_output \o slash \o name_pq }

Keys == QueryKeys \cup SlashlessKeys \cup ManySlashKeys \cup ShortKeys

S3Profiles ==
  {[given |-> TRUE, backend |-> "s3", bucket |-> b, key |-> k,
    has_cache_duration |-> h, cache_duration |-> IF h THEN 30 ELSE 0] :
      b \in {"b1", "b2"}, k \in {"k1", "k2"}, h \in BOOLEAN}

\* Profiles whose backend is not registered, or not given at all.
UnknownProfiles ==
  {[given |-> TRUE, backend |-> b, bucket |-> "", key |-> "",
    has_cache_duration |-> FALSE, cache_duration |-> 0] : b \in {"consul", ""}}

S3Keys == { name_tx \o slash \o name_pq, name_tz \o slash \o name_pq }

EmptyCache == [k \in {"k1", "k2"} |-> NoCacheFile]

NoCall ==
  [op |-> "none", key |-> <<>>, profile |-> NoProfile, args |-> 0, at |-> 0,
   fetched |-> "none",
   out |-> NoneV, logged |-> FALSE, ret |-> [kind |-> "none", exc |-> "", v |-> NoneV]]

Idle == [op |-> "none", key |-> <<>>, profile |-> NoProfile, value |-> NoneV]

(* ------------------------------------------------------------------ *)
(* Lookups: one call of get on a key, a profile and a state file       *)
(* ------------------------------------------------------------------ *)

Requests ==
  {[key |-> k, profile |-> FileProfile, file |-> f] : k \in Keys, f \in Files}
  \cup
  {[key |-> k, profile |-> p, file |-> small_document(one)] :
     k \in S3Keys \cup {name_tx}, p \in S3Profiles \cup UnknownProfiles \cup {NoProfile}}

Init ==
  \E r \in Requests :
    /\ req = [op |-> "get", key |-> r.key, profile |-> r.profile, value |-> NoneV]
    /\ tfstatefile = r.file
    /\ cache = EmptyCache
    /\ now = 0
    /\ last = NoCall

Lookup == get(req.key, req.profile)

Next == Lookup

Spec == Init /\ [][Next]_vars

(* ------------------------------------------------------------------ *)
(* flatten applied to the values of at most MaxNodes nodes             *)
(* ------------------------------------------------------------------ *)

Scalars == { Str(one), NoneV, Dict(<< <<name_pq, Str(one)>> >>) }

RECURSIVE Trees(_)
RECURSIVE Forests(_)
\* The values of exactly n nodes built from scalars, lists and tuples.
Trees(n) ==
  (IF n = 1 THEN Scalars ELSE {})
  \cup {[t |-> kind, v |-> f] : kind \in {"list", "tuple"}, f \in Forests(n - 1)}
\* The sequences of values of n nodes in all.
Forests(n) ==
  IF n = 0 THEN {<<>>}
  ELSE UNION {{<<tr>> \o f : tr \in Trees(k), f \in Forests(n - k)} : k \in 1..n}

\* The values of at most n nodes.
Values(n) == UNION {Trees(k) : k \in 1..n}

InitFlatten ==
  /\ req \in {[op |-> "flatten", key |-> <<>>, profile |-> NoProfile, value |-> x] :
                x \in Values(MaxNodes)}
  /\ tfstatefile = NoFile
  /\ cache = EmptyCache
  /\ now = 0
  /\ last = NoCall

flatten_result(out) ==
  [op |-> "flatten", key |-> <<>>, profile |-> NoProfile, args |-> 1, at |-> now,
   fetched |-> "none", out |-> out, logged |-> FALSE,
   ret |-> IF IsErr(out) THEN Raise(out.v[1], NoneV) ELSE Return(out)]

FlattenCall ==
  /\ req.op = "flatten"
  /\ last' = flatten_result(flatten(req.value))
  /\ UNCHANGED <<req, tfstatefile, cache, now>>

NextFlatten == FlattenCall

SpecFlatten == InitFlatten /\ [][NextFlatten]_vars

(* ------------------------------------------------------------------ *)
(* S3-backed lookups over time, with calls of set in between           *)
(* ------------------------------------------------------------------ *)

InitS3 ==
  /\ req = Idle
  /\ tfstatefile = small_document(one)
  /\ cache = EmptyCache
  /\ now = 0
  /\ last = NoCall

GetS3 == \E k \in S3Keys, p \in S3Profiles : get(k, p)

\* time.time() advances.
Tick ==
  \E d \in {30, 31} :
    /\ now + d <= MaxTime
    /\ now' = now + d
    /\ UNCHANGED <<req, tfstatefile, cache, last>>

SetArgs == { <<>>, <<name_pq>>, <<name_pq, two>> }

Set == \E a \in SetArgs, kw \in {NoProfile, FileProfile} : set_(a, kw)

NextS3 == GetS3 \/ Tick \/ Set

SpecS3 == InitS3 /\ [][NextS3]_vars

(* ------------------------------------------------------------------ *)
(* What the claims speak of, read off the state document as stored     *)
(* ------------------------------------------------------------------ *)

IsGetOnFile == last.op = "get" /\ last.profile = FileProfile

\* The identifier and the attribute of a key with one '/'.
IdentifierOf(k) == split(k, "/")[1]
AttributeOf(k) == split(k, "/")[2]
OneSlash(k) == Len(SelectSeq(k, LAMBDA c : c = "/")) = 1

\* Is the identifier module-scoped, and what follows the module segment?
IsModuleScoped(k) == split(IdentifierOf(k), ".")[1] = kw_module
ModuleSegment(k) == split(IdentifierOf(k), ".")[2]
ResourceKeyOf(k) ==
  IF IsModuleScoped(k)
  THEN join(dot, SubSeq(split(IdentifierOf(k), "."), 3, Len(split(IdentifierOf(k), "."))))
  ELSE IdentifierOf(k)
IsOutputQuery(k) == split(ResourceKeyOf(k), ".")[1] = kw_output

\* A literal identifier naming a resource: no wildcard, no comma.
IsLiteralResourceKey(k) ==
  /\ k \in QueryKeys
  /\ ~contains("*", IdentifierOf(k))
  /\ ~contains(",", IdentifierOf(k))
  /\ ~IsOutputQuery(k)

\* The module path a literal identifier is scoped to, as path components.
PathOf(k) == IF IsModuleScoped(k) THEN <<kw_root, ModuleSegment(k)>> ELSE <<kw_root>>

\* The modules of the stored document whose path is the given one.
ModulesAt(f, path) ==
  {i \in 1..Len(dict_get(f.v, "modules", NoneV).v) :
     path_of(dict_get(f.v, "modules", NoneV).v[i]).v = [j \in 1..Len(path) |-> Str(path[j])]}

StoredModule(f, path) == dict_get(f.v, "modules", NoneV).v[CHOOSE i \in ModulesAt(f, path) : TRUE]

HasEntry(d, k) == \E i \in 1..Len(d.v) : d.v[i][1] = k
EntryOf(d, k) == d.v[CHOOSE i \in 1..Len(d.v) : d.v[i][1] = k][2]

HasResource(f, path, rk) ==
  /\ ModulesAt(f, path) # {}
  /\ HasEntry(EntryOf(StoredModule(f, path), "resources"), rk)

StoredAttributes(f, path, rk) ==
  EntryOf(EntryOf(EntryOf(EntryOf(StoredModule(f, path), "resources"), rk), "primary"),
          "attributes")

HasOutput(f, path, name) ==
  /\ ModulesAt(f, path) # {}
  /\ HasEntry(EntryOf(StoredModule(f, path), "outputs"), name)

StoredOutput(f, path, name) ==
  EntryOf(EntryOf(EntryOf(StoredModule(f, path), "outputs"), name), "value")

\* What parse_identifier makes of the key of the last call on the state file.
CoreResult == parse_key(split(last.key, "/"), normalize(tfstatefile))
RawResult ==
  match_set(split(IdentifierOf(last.key), "."), AttributeOf(last.key), normalize(tfstatefile))

(* ------------------------------------------------------------------ *)
(* Claims                                                              *)
(* ------------------------------------------------------------------ *)

IsLiteralAttribute(k) == ~contains("*", AttributeOf(k)) /\ ~contains(",", AttributeOf(k))

\* C1: a lookup on a well-formed document with a literal key (no '*', no ','
\* in identifier or attribute) that names an existing resource and an
\* existing attribute of it yields that attribute's value as a bare scalar,
\* never a list wrapping it; the caller receives that scalar's encoding.
C1_LiteralKeyYieldsScalar ==
  ( /\ IsGetOnFile
    /\ tfstatefile \in Documents
    /\ IsLiteralResourceKey(last.key)
    /\ IsLiteralAttribute(last.key)
    /\ HasResource(tfstatefile, PathOf(last.key), ResourceKeyOf(last.key))
    /\ HasEntry(StoredAttributes(tfstatefile, PathOf(last.key), ResourceKeyOf(last.key)),
                AttributeOf(last.key)) )
  => /\ CoreResult.t = "str"
     /\ CoreResult = EntryOf(StoredAttributes(tfstatefile, PathOf(last.key),
                                              ResourceKeyOf(last.key)),
                             AttributeOf(last.key))
     /\ last.ret = Return(Str(json_dumps(CoreResult)))

\* t.x/pq on a document whose root module holds t.x with pq = "1".
C1_Witness ==
  /\ IsGetOnFile
  /\ tfstatefile \in Documents
  /\ last.key = name_tx \o slash \o name_pq
  /\ HasResource(tfstatefile, <<kw_root>>, name_tx)
  /\ CoreResult = Str(one)
  /\ last.ret = Return(Str(quote(one)))

\* C2: a missing module, resource or attribute never makes a lookup fail:
\* every query of the supported shapes on a well-formed document returns.
C2_MissingNeverFails ==
  (IsGetOnFile /\ tfstatefile \in Documents /\ last.key \in QueryKeys)
  => last.ret.kind = "return"

\* C3: for an attribute holding '*', the result for the resolved resource is
\* the mapping of exactly the attribute names in which the pattern is found
\* by search anywhere in the name, each with its value.
C3_WildcardAttributeBySearch ==
  ( /\ IsGetOnFile
    /\ tfstatefile \in Documents
    /\ IsLiteralResourceKey(last.key)
    /\ contains("*", AttributeOf(last.key))
    /\ HasResource(tfstatefile, PathOf(last.key), ResourceKeyOf(last.key)) )
  => LET stored == StoredAttributes(tfstatefile, PathOf(last.key), ResourceKeyOf(last.key))
         pattern == wildcard_pattern(AttributeOf(last.key))
     IN  /\ CoreResult.t = "dict"
         /\ {CoreResult.v[i][1] : i \in 1..Len(CoreResult.v)}
              = {stored.v[i][1] : i \in {j \in 1..Len(stored.v) :
                                           pattern_search(pattern, stored.v[j][1])}}
         /\ \A i \in 1..Len(CoreResult.v) :
              CoreResult.v[i][2] = EntryOf(stored, CoreResult.v[i][1])

\* A module-scoped query whose module segment is a list of names, no '*'.
IsModuleListQuery(k) ==
  k \in QueryKeys /\ IsModuleScoped(k) /\ ~contains("*", ModuleSegment(k))

ListedNames(k) == split(ModuleSegment(k), ",")

OutputNameOf(k) == split(ResourceKeyOf(k), ".")[2]

C5_InvalidKeyFails ==
  (IsGetOnFile /\ ~OneSlash(last.key))
  => /\ last.out = Err("ValueError")
     /\ last.ret = Raise("CommandExecutionError", Err("ValueError"))

\* The key module.a,b/output/o (two '/') on an existing state document.
C5_Witness ==
  /\ IsGetOnFile
  /\ last.key = kw_module \o dot \o <<"a", ",", "b">> \o slash \o kw_output \o slash \o name_o
  /\ tfstatefile \in Documents
  /\ last.ret.kind = "raise"

\* C6: set fails with the unsupported-operation error for every combination
\* of arguments, returns no value and changes no state.
C6_SetAlwaysFails ==
  [][(last' # last /\ last'.op = "set")
       => /\ last'.ret = Raise("NotImplemented", NoneV)
          /\ UNCHANGED <<req, tfstatefile, cache, now>>]_vars

\* set called with a key and a value while a cached state file exists.
C6_Witness ==
  /\ last.op = "set"
  /\ last.args = 2
  /\ cache["k1"].exists
  /\ last.ret.kind = "raise"

\* C7: flattening is idempotent: flatten(flatten(v)) = flatten(v) for every
\* value built from scalars, mappings and nested lists and tuples.
C7_FlattenIdempotent ==
  last.op = "flatten" => flatten(last.out) = last.out

\* [["1"], ("1",)] flattened to ["1", "1"].
C7_Witness ==
  /\ last.op = "flatten"
  /\ req.value = List(<<List(<<Str(one)>>), Tuple(<<Str(one)>>)>>)
  /\ last.out = List(<<Str(one), Str(one)>>)

\* C8: a flattened result that is a plain string is returned unchanged, any
\* other flattened result as its JSON encoding.
C8_PlainStringPassesThrough ==
  (IsGetOnFile /\ last.ret.kind = "return")
  => IF CoreResult.t = "str"
     THEN last.ret.v = CoreResult
     ELSE last.ret.v = Str(json_dumps(CoreResult))

\* C9: every failure inside get (invalid key, no modules list, a backend that
\* is neither file nor s3 or is absent, a fetch error) reaches the caller as
\* CommandExecutionError carrying the original exception, after a log entry.
C9_FailuresReachCallerWrapped ==
  last.op = "get"
  => /\ last.ret.kind = "raise"
          => /\ last.ret.exc = "CommandExecutionError"
             /\ IsErr(last.ret.v)
             /\ last.logged
     /\ (last.profile = FileProfile /\ ~OneSlash(last.key))
          => last.ret = Raise("CommandExecutionError", Err("ValueError"))
     /\ (last.profile = FileProfile /\ OneSlash(last.key)
           /\ tfstatefile = DocumentWithoutModules)
          => last.ret = Raise("CommandExecutionError", Err("TypeError"))
     /\ (last.profile = FileProfile /\ OneSlash(last.key) /\ tfstatefile = NoFile)
          => last.ret = Raise("CommandExecutionError", Err("IOError"))
     /\ last.profile \in UnknownProfiles
          => last.ret = Raise("CommandExecutionError", Err("TypeError"))
     /\ (last.profile \in S3Profiles /\ last.fetched = "download"
           /\ s3_object(last.profile.bucket, last.profile.key) = NoFile)
          => last.ret = Raise("CommandExecutionError", Err("ClientError"))

\* A profile naming the backend consul.
C9_Witness ==
  /\ last.op = "get"
  /\ last.profile.backend = "consul"
  /\ last.ret = Raise("CommandExecutionError", Err("TypeError"))
  /\ last.logged

\* C10: an S3-backed lookup reads the cached copy without downloading only if
\* that copy was downloaded from the same bucket and key and its modification
\* time plus cache_duration is not earlier than the time of the call.
C10_CachedCopyIsSameObjectAndFresh ==
  (last.op = "get" /\ last.profile.backend = "s3" /\ last.fetched = "cache")
  => /\ cache[cache_name(last.profile)].exists
     /\ cache[cache_name(last.profile)].bucket = last.profile.bucket
     /\ cache[cache_name(last.profile)].key = last.profile.key
     /\ cache[cache_name(last.profile)].mtime + cache_duration(last.profile) >= last.at

====
